---- MODULE Spec2Model ----
(***************************************************************************)
(* Credential rotation and response caching of the Telegram companion bot. *)
(*                                                                         *)
(* The repository carries three request stacks, each with its own key      *)
(* selection and its own cache:                                            *)
(*   "handler"  bot/ai_handler.py         + bot/caching.py                 *)
(*   "service"  bot/modules/ai_service.py + bot/modules/cache.py           *)
(*   "textgen"  utils/text_generator.py   + utils/api_key_manager.py       *)
(*                                        + utils/cache_manager.py         *)
(* and the three cache modules are also driven through their own           *)
(* functions ("caching", "modcache", "ttlcache").  The variable impl       *)
(* records which of these a behaviour runs.                                *)
(***************************************************************************)
EXTENDS Integers, Sequences, FiniteSets, TLC

\* ------------------------------------------------------------------ bounds
\* number of configured credentials (10 in bot/config.py, 5 in config.py)
NumKeys == 4
\* cache capacity of the model (1000 in bot/config.py and config.py)
MaxCacheItemsBound == 3
\* number of clock advances in one behaviour
MaxTicks == 1
\* cap of the consecutive-error counter on the branch that never resets it
MaxErrors == 3
\* cap of api_key_usage at the start of a call
MaxUsage == 2
\* uses of one key after which increment_usage rotates (100 in the source)
UsageThresholdBound == 2
\* the number of messages a conversation history holds (20 in bot/caching.py)
MaxHistoryBound == 3
\* the broadcast previews the owner has asked for
MaxPreviews == 2

\* ------------------------------------------------------- program constants
MAX_CONSECUTIVE_ERRORS == 3
CACHE_EXPIRY == 3600
CACHE_EXPIRATION == 3600
MAX_CACHE_ITEMS == MaxCacheItemsBound
MAX_CACHE_SIZE == MaxCacheItemsBound
USAGE_THRESHOLD == UsageThresholdBound
HistoryLimit == MaxHistoryBound

\* the credentials, named by their position in the configured list
GROQ_API_KEYS == 0 .. (NumKeys - 1)

\* two coroutines can be inside a request function at once: a message
\* handler and a job of the job queue
Tasks == {"t1", "t2"}
\* the requests of the model: <<user id, message text>>
Requests == {<<1, "hi">>, <<12, "hi">>, <<1, "2hi">>}
HandlerRequests == {<<1, "hi">>, <<12, "hi">>}
\* the keys of the direct cache operations, and the keys of generate_bio
CacheKeys == {"a", "b", "c", "d"}
BioKeys == {"bio_happy_1"}
\* the clock advances by exactly the expiry period or by one second more
TimeSteps == {CACHE_EXPIRY, CACHE_EXPIRY + 1}

Impls == {"handler", "service", "textgen", "caching", "modcache", "ttlcache",
          "bot", "history", "broadcast"}

\* outcomes of one HTTP request to the provider: a usable completion, a 200
\* response without choices, or an exception of the named class.  HTTPError
\* is a transport error or the error status raise_for_status() reports,
\* JSONDecodeError a body that is not JSON, KeyError a choice without
\* "message" or "content", AttributeError a choice whose content is null
\* (the .strip() of ai_handler.py line 727 on None)
OkOutcomes == {"ok"}
RaisedOutcomes == {"HTTPError", "JSONDecodeError", "KeyError", "AttributeError"}
Outcomes == OkOutcomes \cup {"no_choices"} \cup RaisedOutcomes

VARIABLES
    impl,                \* which stack runs
    now,                 \* time.time()
    ticks,               \* number of clock advances so far
    CURRENT_KEY_INDEX,   \* ai_handler.CURRENT_KEY_INDEX
    CONSECUTIVE_ERRORS,  \* ai_handler.CONSECUTIVE_ERRORS
    errKeys,             \* the credentials whose failures CONSECUTIVE_ERRORS counts
    response_cache,      \* bot.caching._response_cache, in dict order
    htask,               \* per coroutine: position in ai_handler.generate_ai_response
    api_key_usage,       \* ai_service.api_key_usage
    key_locks,           \* ai_service.key_locks: the holder of each lock
    stask,               \* per coroutine: position in ai_service.get_ai_response
    cache,               \* bot.modules.cache.cache with cache_times, in dict order
    current_key_index,   \* APIKeyManager._current_key_index
    key_usage_counts,    \* APIKeyManager._key_usage_counts
    gen,                 \* position in text_generator.generate_ai_response
    ttl_cache,           \* cache_manager._cache.cache, in dict order
    rotated,             \* the key index before and after the last rotations
    used,                \* the keys of the LRU cache, least recently used first
    evt,                 \* the cache lookup and eviction of the step just taken
    ret,                 \* the value returned by the step just taken, if any
    users,               \* the users table: per user absent, member or banned
    user_data,           \* context.user_data of the owner
    buttons,             \* the users whose Message or Reply button the owner has
    settings,            \* the settings row of message_logging
    conversation_history, \* bot.caching._conversation_history
    added,               \* per history key, the last messages added
    chat_data,           \* context.chat_data of the owner's chat
    previews,            \* the broadcast previews sent, in order
    update,              \* the update the step just taken handled
    out                  \* the messages the step just taken sent

vars == <<impl, now, ticks, CURRENT_KEY_INDEX, CONSECUTIVE_ERRORS, errKeys,
          response_cache, htask, api_key_usage, key_locks, stask, cache,
          current_key_index, key_usage_counts, gen, ttl_cache,
          rotated, used, evt, ret,
          users, user_data, buttons, settings, conversation_history, added,
          chat_data, previews, update, out>>

clockVars == <<now, ticks>>
handlerVars == <<CURRENT_KEY_INDEX, CONSECUTIVE_ERRORS, errKeys, response_cache, htask>>
serviceVars == <<api_key_usage, key_locks, stask, cache>>
textgenVars == <<current_key_index, key_usage_counts, gen, ttl_cache>>
aiVars == <<impl, clockVars, handlerVars, serviceVars, textgenVars, rotated, used, evt, ret>>
broadcastVars == <<chat_data, previews>>
botVars == <<users, user_data, buttons, settings, conversation_history, added,
             broadcastVars, update, out>>

\* ------------------------------------------------------------------ values
None == [kind |-> "none", user |-> 0, text |-> ""]
\* the completion the provider gives to the request <<u, x>>
ProviderResponse(u, x) == [kind |-> "provider", user |-> u, text |-> x]
Fallback(msg) == [kind |-> "fallback", user |-> 0, text |-> msg]
Raised(exc) == [kind |-> "exception", user |-> 0, text |-> exc]
DEFAULT_ERROR_MESSAGE == Fallback("DEFAULT_ERROR_MESSAGE")
SORRY_MESSAGE == Fallback("SORRY")
FallbackResponses == {"brain", "glitch", "thinking_cap", "reflection", "reboot"}

\* Python truth value of a returned string
Truthy(v) == v.kind # "none"

\* a return: the value, the request it answers, whether it came from the
\* cache, whether every provider request of the call failed, and (for
\* ai_service.get_ai_response) the keys the call made its requests with
NoRet == [val |-> None, user |-> 0, text |-> "", hit |-> FALSE, failed |-> FALSE,
          keys |-> << >>]
Returns(v, u, x, h, f) == [val |-> v, user |-> u, text |-> x, hit |-> h, failed |-> f,
                           keys |-> << >>]

\* a cache event: the key looked up, the age of the entry found (-1: none),
\* the result of the lookup; the key evicted by a store, the least recently
\* used key at that time, and whether the stored key was new
NoEvt == [key |-> "", age |-> -1, result |-> "none",
          evicted |-> "", lru |-> "", fresh |-> FALSE]

Idle == [pc |-> "idle", user |-> 0, text |-> "", key |-> 0]
SIdle == [pc |-> "idle", user |-> 0, text |-> "", key |-> 0, first |-> 0, tries |-> 0,
          tried |-> << >>]
Free == "free"

\* ------------------------------------------------------- sequence helpers
RECURSIVE IndexOf(_, _, _)
IndexOf(c, key, i) ==
    IF i > Len(c) THEN 0
    ELSE IF c[i].key = key THEN i ELSE IndexOf(c, key, i + 1)

RemoveAt(c, i) == [j \in 1 .. (Len(c) - 1) |-> IF j < i THEN c[j] ELSE c[j + 1]]

KeysOf(c) == {c[i].key : i \in 1 .. Len(c)}

RemoveKey(q, key) == SelectSeq(q, LAMBDA k : k # key)
Touch(q, key) == Append(RemoveKey(q, key), key)

\* the window of key indices kept for the round-robin property
Rotate(w, i) ==
    LET a == Append(w, i) IN
    IF Len(a) > NumKeys + 1 THEN Tail(a) ELSE a

\* the lookup event of a get that returned v from cache c, stamped at s
Looked(key, found, s, v, t) ==
    [NoEvt EXCEPT !.key = key,
                  !.age = IF found THEN t - s ELSE -1,
                  !.result = IF v # None THEN "hit"
                             ELSE IF found THEN "expired" ELSE "miss"]

\* the recency order after a get that left cache c2
used_after_get(q, c2, key, v) ==
    IF v # None THEN Touch(q, key) ELSE SelectSeq(q, LAMBDA k : k \in KeysOf(c2))

\* the recency order after a store of key that left cache c2
used_after_store(q, c2, key) ==
    Touch(SelectSeq(q, LAMBDA k : k \in KeysOf(c2)), key)

\* the eviction event of a store of key that turned cache c into c2
eviction_of_store(e, q, c, c2, key) ==
    LET gone == KeysOf(c) \ KeysOf(c2) IN
    IF gone = {} THEN e
    ELSE [e EXCEPT !.evicted = CHOOSE k \in gone : TRUE,
                   !.lru = Head(q),
                   !.fresh = key \notin KeysOf(c)]

\* ------------------------------------------------------------ bot/config.py
get_current_api_key(index) == index % NumKeys

\* ----------------------------------------------------------- bot/caching.py
get_cached_response(c, key, t) ==
    LET i == IndexOf(c, key, 1) IN
    IF i = 0 THEN None
    ELSE IF c[i].expiry < t THEN None ELSE c[i].data

\* the cache after get_cached_response: an expired entry is deleted
after_get_cached_response(c, key, t) ==
    LET i == IndexOf(c, key, 1) IN
    IF i # 0 /\ c[i].expiry < t THEN RemoveAt(c, i) ELSE c

\* min(_response_cache, key=expiry): the first entry with the least expiry
RECURSIVE OldestIndex(_, _, _)
OldestIndex(c, i, best) ==
    IF i > Len(c) THEN best
    ELSE OldestIndex(c, i + 1, IF c[i].expiry < c[best].expiry THEN i ELSE best)

caching_evict(c) ==
    IF Len(c) >= MAX_CACHE_ITEMS THEN RemoveAt(c, OldestIndex(c, 1, 1)) ELSE c

set_cached_response(c, key, value, t) ==
    LET c1 == caching_evict(c)
        e  == [key |-> key, data |-> value, expiry |-> t + CACHE_EXPIRY]
        i  == IndexOf(c1, key, 1)
    IN IF i = 0 THEN Append(c1, e) ELSE [c1 EXCEPT ![i] = e]

caching_clear_cache(c) == << >>

\* the lookup event of get_cached_response
caching_looked(c, key, t) ==
    LET i == IndexOf(c, key, 1) IN
    Looked(key, i # 0, IF i # 0 THEN c[i].expiry - CACHE_EXPIRY ELSE 0,
           get_cached_response(c, key, t), t)

\* ------------------------------------------------------ bot/modules/cache.py
\* mod_expired with the operands of the subtraction exchanged
mod_expired_reversed(c, i, t) == c[i].time - t > CACHE_EXPIRY

mod_expired(c, i, t) == t - c[i].time > CACHE_EXPIRY

mod_get_cached_response(c, key, t) ==
    LET i == IndexOf(c, key, 1) IN
    IF i = 0 THEN None
    ELSE IF mod_expired(c, i, t) THEN None ELSE c[i].data

\* the cache after get_cached_response: an expired entry is popped, a live
\* one is moved to the end of the OrderedDict
mod_after_get(c, key, t) ==
    LET i == IndexOf(c, key, 1) IN
    IF i = 0 THEN c
    ELSE IF mod_expired(c, i, t) THEN RemoveAt(c, i)
    ELSE Append(RemoveAt(c, i), c[i])

\* mod_evict with the capacity test off by one
mod_evict_late(c) == IF Len(c) > MAX_CACHE_ITEMS THEN Tail(c) ELSE c

\* popitem(last=False) when the cache is full
mod_evict(c) == IF Len(c) >= MAX_CACHE_ITEMS THEN Tail(c) ELSE c

\* cache[key] = response keeps the position of a key that is present
mod_put(c, e) ==
    LET i == IndexOf(c, e.key, 1) IN
    IF i = 0 THEN Append(c, e) ELSE [c EXCEPT ![i] = e]

cache_response(c, key, response, t) ==
    mod_put(mod_evict(c), [key |-> key, data |-> response, time |-> t])

mod_clear_cache(c) == << >>

\* --------------------------------------------------- utils/cache_manager.py
ttl_expired(c, i, t) == t - c[i].time > CACHE_EXPIRATION

ttl_get(c, key, t) ==
    LET i == IndexOf(c, key, 1) IN
    IF i = 0 THEN None
    ELSE IF ttl_expired(c, i, t) THEN None ELSE c[i].data

\* the cache after TTLCache.get
ttl_after_get(c, key, t) ==
    LET i == IndexOf(c, key, 1) IN
    IF i = 0 THEN c
    ELSE IF ttl_expired(c, i, t) THEN RemoveAt(c, i)
    ELSE Append(RemoveAt(c, i), c[i])

ttl_set(c, key, value, t) ==
    LET i  == IndexOf(c, key, 1)
        c1 == IF i # 0 THEN RemoveAt(c, i) ELSE c
        c2 == IF Len(c1) >= MAX_CACHE_SIZE THEN Tail(c1) ELSE c1
    IN Append(c2, [key |-> key, data |-> value, time |-> t])

ttl_clear(c) == << >>

ttl_remove_expired(c, t) == SelectSeq(c, LAMBDA e : ~(t - e.time > CACHE_EXPIRATION))

\* the lookup event of a get on one of the two OrderedDict caches
lru_looked(c, key, v, t) ==
    LET i == IndexOf(c, key, 1) IN
    Looked(key, i # 0, IF i # 0 THEN c[i].time ELSE 0, v, t)

\* --------------------------------------------------------- bot/ai_handler.py
\* line 636: the cache key
handler_cache_key(user_id, message_text) == ToString(user_id) \o ":" \o message_text

\* line 749: the exception classes the except clause names
HandlerCaught(o) == o \in {"HTTPError", "JSONDecodeError", "KeyError"}

\* should_rotate without the threshold: every failure rotates
should_rotate_always(errors) == errors >= 1

\* line 754: the rotation test, made after the increment of the counter
should_rotate(errors) == errors >= MAX_CONSECUTIVE_ERRORS

\* next_key_index without the wrap at the end of the list
next_key_index_nowrap(index) == index + 1

\* line 755
next_key_index(index) == (index + 1) % NumKeys

\* lines 775-782: what the backup attempt returns
backup_value(tk, o) ==
    IF o \in OkOutcomes THEN ProviderResponse(tk.user, tk.text) ELSE SORRY_MESSAGE

\* backup_cache that stores whatever the backup attempt returns
backup_cache_always(c, tk, o, t) ==
    set_cached_response(c, handler_cache_key(tk.user, tk.text), backup_value(tk, o), t)

\* lines 775-778: the cache after the backup attempt
backup_cache(c, tk, o, t) ==
    IF o \in OkOutcomes
    THEN set_cached_response(c, handler_cache_key(tk.user, tk.text), backup_value(tk, o), t)
    ELSE c

\* lines 635-640 and 698: cache lookup, then the credential is read
H_Begin(t, r) ==
    /\ impl = "handler"
    /\ htask[t].pc = "idle"
    /\ LET k == handler_cache_key(r[1], r[2])
           v == get_cached_response(response_cache, k, now)
       IN /\ response_cache' = after_get_cached_response(response_cache, k, now)
          /\ evt' = caching_looked(response_cache, k, now)
          /\ IF Truthy(v)
             THEN /\ ret' = Returns(v, r[1], r[2], TRUE, FALSE)
                  /\ UNCHANGED htask
             ELSE /\ ret' = NoRet
                  /\ htask' = [htask EXCEPT ![t] =
                         [pc |-> "primary", user |-> r[1], text |-> r[2],
                          key |-> get_current_api_key(CURRENT_KEY_INDEX)]]
    /\ UNCHANGED <<botVars, impl, clockVars, CURRENT_KEY_INDEX, CONSECUTIVE_ERRORS, errKeys,
                   serviceVars, textgenVars, rotated, used>>

\* lines 715-757: the request with the default model completes
H_Primary(t, o) ==
    /\ impl = "handler"
    /\ htask[t].pc = "primary"
    /\ LET tk == htask[t] IN
       CASE o \in OkOutcomes ->
              /\ response_cache' = set_cached_response(response_cache,
                      handler_cache_key(tk.user, tk.text),
                      ProviderResponse(tk.user, tk.text), now)
              /\ CONSECUTIVE_ERRORS' = 0
              /\ errKeys' = {}
              /\ htask' = [htask EXCEPT ![t] = Idle]
              /\ ret' = Returns(ProviderResponse(tk.user, tk.text),
                                tk.user, tk.text, FALSE, FALSE)
              /\ UNCHANGED <<CURRENT_KEY_INDEX, rotated>>
         [] o = "no_choices" ->
              /\ CONSECUTIVE_ERRORS < MaxErrors
              /\ CONSECUTIVE_ERRORS' = CONSECUTIVE_ERRORS + 1
              /\ errKeys' = errKeys \cup {tk.key}
              /\ htask' = [htask EXCEPT ![t] = Idle]
              /\ ret' = Returns(DEFAULT_ERROR_MESSAGE, tk.user, tk.text, FALSE, TRUE)
              /\ UNCHANGED <<CURRENT_KEY_INDEX, rotated, response_cache>>
         [] o \in RaisedOutcomes /\ HandlerCaught(o) ->
              /\ IF should_rotate(CONSECUTIVE_ERRORS + 1)
                 THEN /\ CURRENT_KEY_INDEX' = next_key_index(CURRENT_KEY_INDEX)
                      /\ rotated' = Rotate(rotated, CURRENT_KEY_INDEX')
                      /\ CONSECUTIVE_ERRORS' = 0
                      /\ errKeys' = {}
                 ELSE /\ CONSECUTIVE_ERRORS' = CONSECUTIVE_ERRORS + 1
                      /\ errKeys' = errKeys \cup {tk.key}
                      /\ UNCHANGED <<CURRENT_KEY_INDEX, rotated>>
              /\ htask' = [htask EXCEPT ![t].pc = "backup"]
              /\ ret' = NoRet
              /\ UNCHANGED response_cache
         [] o \in RaisedOutcomes /\ ~HandlerCaught(o) ->
              /\ htask' = [htask EXCEPT ![t] = Idle]
              /\ ret' = Returns(Raised(o), tk.user, tk.text, FALSE, TRUE)
              /\ UNCHANGED <<CURRENT_KEY_INDEX, CONSECUTIVE_ERRORS, errKeys, rotated,
                             response_cache>>
    /\ evt' = NoEvt
    /\ UNCHANGED <<botVars, impl, clockVars, serviceVars, textgenVars, used>>

\* lines 759-782: the request with the backup model completes
H_Backup(t, o) ==
    /\ impl = "handler"
    /\ htask[t].pc = "backup"
    /\ response_cache' = backup_cache(response_cache, htask[t], o, now)
    /\ ret' = Returns(backup_value(htask[t], o), htask[t].user, htask[t].text,
                      FALSE, o \notin OkOutcomes)
    /\ htask' = [htask EXCEPT ![t] = Idle]
    /\ evt' = NoEvt
    /\ UNCHANGED <<botVars, impl, clockVars, CURRENT_KEY_INDEX, CONSECUTIVE_ERRORS, errKeys,
                   serviceVars, textgenVars, rotated, used>>

\* bot/scheduled_tasks.py clear_expired_cache, run every six hours
H_ClearExpiredCache ==
    /\ impl = "handler"
    /\ response_cache # << >>
    /\ response_cache' = caching_clear_cache(response_cache)
    /\ ret' = NoRet
    /\ evt' = [NoEvt EXCEPT !.result = "cleared"]
    /\ UNCHANGED <<botVars, impl, clockVars, CURRENT_KEY_INDEX, CONSECUTIVE_ERRORS, errKeys,
                   htask, serviceVars, textgenVars, rotated, used>>

\* --------------------------------------------------- bot/modules/ai_service.py
\* langdetect of the short texts of the model
Language(text) == "en"

\* json.dumps of a history, a list of message texts
RECURSIVE json_dumps(_)
json_dumps(h) == IF h = << >> THEN "]" ELSE Head(h) \o "," \o json_dumps(Tail(h))

\* line 19: the cache key
service_cache_key(prompt, language, history) ==
    prompt \o "_" \o language \o "_" \o
        (IF history = << >> THEN "no_history" ELSE "[" \o json_dumps(history))

\* min(..., key=usage): the first key of least usage among S
LeastUsed(usage, S) ==
    CHOOSE k \in S : \A j \in S : usage[k] < usage[j] \/ (usage[k] = usage[j] /\ k <= j)

\* line 54: the keys the retry loop chooses from
other_keys(api_key) == GROQ_API_KEYS \ {api_key}

\* async with key_locks[k]: taken at once when free, else the coroutine waits
TryLock(locks, k, t) == IF locks[k] = Free THEN [locks EXCEPT ![k] = t] ELSE locks
Release(locks, k) == [locks EXCEPT ![k] = Free]

\* lines 18-42: cache lookup, least used key, first lock; the handlers of
\* bot/handlers/conversation.py pass the message text and, in groups, no history
S_Begin(t, r) ==
    /\ impl = "service"
    /\ stask[t].pc = "idle"
    /\ \A k \in GROQ_API_KEYS : api_key_usage[k] < MaxUsage
    /\ LET ck == service_cache_key(r[2], Language(r[2]), << >>)
           v  == mod_get_cached_response(cache, ck, now)
           k  == LeastUsed(api_key_usage, GROQ_API_KEYS)
       IN /\ cache' = mod_after_get(cache, ck, now)
          /\ used' = used_after_get(used, cache', ck, v)
          /\ evt' = lru_looked(cache, ck, v, now)
          /\ IF Truthy(v)
             THEN /\ ret' = Returns(v, r[1], r[2], TRUE, FALSE)
                  /\ UNCHANGED <<api_key_usage, key_locks, stask>>
             ELSE /\ ret' = NoRet
                  /\ api_key_usage' = [api_key_usage EXCEPT ![k] = @ + 1]
                  /\ key_locks' = TryLock(key_locks, k, t)
                  /\ stask' = [stask EXCEPT ![t] =
                        [pc |-> IF key_locks[k] = Free THEN "req1" ELSE "wait1",
                         user |-> r[1], text |-> r[2], key |-> k, first |-> k,
                         tries |-> 0, tried |-> << >>]]
    /\ UNCHANGED <<botVars, impl, clockVars, handlerVars, textgenVars, rotated>>

\* line 42 and line 65: a waiting coroutine gets the lock
S_Acquire(t) ==
    /\ impl = "service"
    /\ stask[t].pc \in {"wait1", "wait2"}
    /\ key_locks[stask[t].key] = Free
    /\ key_locks' = [key_locks EXCEPT ![stask[t].key] = t]
    /\ stask' = [stask EXCEPT ![t].pc = IF @ = "wait1" THEN "req1" ELSE "req2"]
    /\ ret' = NoRet
    /\ evt' = NoEvt
    /\ UNCHANGED <<botVars, impl, clockVars, handlerVars, textgenVars, api_key_usage, cache,
                   rotated, used>>

\* lines 117-123: a 200 response is parsed, cached and returned; every lock
\* the coroutine holds is released on the way out
S_Success(t) ==
    LET tk == stask[t]
        ck == service_cache_key(tk.text, Language(tk.text), << >>)
        v  == ProviderResponse(tk.user, tk.text)
    IN /\ cache' = cache_response(cache, ck, v, now)
       /\ used' = used_after_store(used, cache', ck)
       /\ evt' = eviction_of_store(NoEvt, used, cache, cache', ck)
       /\ key_locks' = [k \in GROQ_API_KEYS |->
                           IF key_locks[k] = t THEN Free ELSE key_locks[k]]
       /\ stask' = [stask EXCEPT ![t] = SIdle]
       /\ ret' = [Returns(v, tk.user, tk.text, FALSE, FALSE)
                     EXCEPT !.keys = Append(tk.tried, tk.key)]
       /\ UNCHANGED api_key_usage

\* lines 50-62: the next iteration of the retry loop picks another key, or
\* lines 72-74: the loop is over and the fallback is returned
S_Retry(t, locks) ==
    LET tk == stask[t]
        k  == LeastUsed(api_key_usage, other_keys(tk.key))
    IN /\ IF tk.tries < NumKeys - 1 /\ other_keys(tk.key) # {}
          THEN /\ api_key_usage' = [api_key_usage EXCEPT ![k] = @ + 1]
               /\ stask' = [stask EXCEPT ![t].pc = "sleep", ![t].key = k,
                                         ![t].tries = @ + 1,
                                         ![t].tried = Append(@, tk.key)]
               /\ key_locks' = locks
               /\ ret' = NoRet
          ELSE /\ \E f \in FallbackResponses :
                    ret' = [Returns(Fallback(f), tk.user, tk.text, FALSE, TRUE)
                               EXCEPT !.keys = Append(tk.tried, tk.key)]
               /\ key_locks' = Release(locks, tk.first)
               /\ stask' = [stask EXCEPT ![t] = SIdle]
               /\ UNCHANGED api_key_usage
       /\ evt' = NoEvt
       /\ UNCHANGED <<cache, used>>

\* lines 43-46: the request with the first key completes
S_Req1(t, o) ==
    /\ impl = "service"
    /\ stask[t].pc = "req1"
    /\ IF o \in OkOutcomes THEN S_Success(t) ELSE S_Retry(t, key_locks)
    /\ UNCHANGED <<botVars, impl, clockVars, handlerVars, textgenVars, rotated>>

\* lines 61-65: the backoff sleep ends and the lock of the retry key is asked
S_Wake(t) ==
    /\ impl = "service"
    /\ stask[t].pc = "sleep"
    /\ key_locks' = TryLock(key_locks, stask[t].key, t)
    /\ stask' = [stask EXCEPT ![t].pc =
                    IF key_locks[stask[t].key] = Free THEN "req2" ELSE "wait2"]
    /\ ret' = NoRet
    /\ evt' = NoEvt
    /\ UNCHANGED <<botVars, impl, clockVars, handlerVars, textgenVars, api_key_usage, cache,
                   rotated, used>>

\* lines 66-70: the request with a retry key completes
S_Req2(t, o) ==
    /\ impl = "service"
    /\ stask[t].pc = "req2"
    /\ IF o \in OkOutcomes
       THEN S_Success(t)
       ELSE S_Retry(t, Release(key_locks, stask[t].key))
    /\ UNCHANGED <<botVars, impl, clockVars, handlerVars, textgenVars, rotated>>

\* ------------------------------------------------- utils/api_key_manager.py
rotate_key(index) == (index + 1) % NumKeys

\* increment_usage: whether the call rotates
usage_rotates(index, counts) == counts[index] + 1 >= USAGE_THRESHOLD

counts_after_increment_usage(index, counts) == [counts EXCEPT ![index] = @ + 1]

\* --------------------------------------------------- utils/text_generator.py
\* lines 39-47: the client is built with the current key, the use is counted
T_Start(r) ==
    /\ impl = "textgen"
    /\ gen.pc = "idle"
    /\ key_usage_counts[current_key_index] <= USAGE_THRESHOLD
    /\ gen' = [pc |-> "first", user |-> r[1], text |-> r[2], key |-> current_key_index]
    /\ key_usage_counts' = counts_after_increment_usage(current_key_index, key_usage_counts)
    /\ IF usage_rotates(current_key_index, key_usage_counts)
       THEN /\ current_key_index' = rotate_key(current_key_index)
            /\ rotated' = Rotate(rotated, current_key_index')
       ELSE UNCHANGED <<current_key_index, rotated>>
    /\ ret' = NoRet
    /\ evt' = NoEvt
    /\ UNCHANGED <<botVars, impl, clockVars, handlerVars, serviceVars, ttl_cache, used>>

\* lines 66-108: the first request completes; a failure rotates the key
T_First(o) ==
    /\ impl = "textgen"
    /\ gen.pc = "first"
    /\ IF o \in OkOutcomes
       THEN /\ ret' = Returns(ProviderResponse(gen.user, gen.text),
                              gen.user, gen.text, FALSE, FALSE)
            /\ gen' = Idle
            /\ UNCHANGED <<current_key_index, rotated>>
       ELSE /\ current_key_index' = rotate_key(current_key_index)
            /\ rotated' = Rotate(rotated, current_key_index')
            /\ gen' = [gen EXCEPT !.pc = "retry", !.key = current_key_index']
            /\ ret' = NoRet
    /\ evt' = NoEvt
    /\ UNCHANGED <<botVars, impl, clockVars, handlerVars, serviceVars, key_usage_counts,
                   ttl_cache, used>>

\* lines 110-128: the request with the next key completes
T_Retry(o) ==
    /\ impl = "textgen"
    /\ gen.pc = "retry"
    /\ ret' = IF o \in OkOutcomes
              THEN Returns(ProviderResponse(gen.user, gen.text),
                           gen.user, gen.text, FALSE, FALSE)
              ELSE Returns(Fallback("error_template"), gen.user, gen.text, FALSE, TRUE)
    /\ gen' = Idle
    /\ evt' = NoEvt
    /\ UNCHANGED <<botVars, impl, clockVars, handlerVars, serviceVars, current_key_index,
                   key_usage_counts, ttl_cache, rotated, used>>

\* bot/handlers/admin.py admin_rotate_key: the owner rotates by hand
T_AdminRotate ==
    /\ impl = "textgen"
    /\ gen.pc = "idle"
    /\ current_key_index' = rotate_key(current_key_index)
    /\ rotated' = Rotate(rotated, current_key_index')
    /\ ret' = NoRet
    /\ evt' = NoEvt
    /\ UNCHANGED <<botVars, impl, clockVars, handlerVars, serviceVars, key_usage_counts, gen,
                   ttl_cache, used>>

\* lines 130-206, generate_bio: cache lookup, one request, the bio is cached
T_Bio(key, o) ==
    /\ impl = "textgen"
    /\ gen.pc = "idle"
    /\ LET v  == ttl_get(ttl_cache, key, now)
           c1 == ttl_after_get(ttl_cache, key, now)
           q1 == used_after_get(used, c1, key, v)
           e1 == lru_looked(ttl_cache, key, v, now)
           b  == ProviderResponse(0, key)
       IN IF Truthy(v)
          THEN /\ ret' = Returns(v, 0, key, TRUE, FALSE)
               /\ ttl_cache' = c1
               /\ used' = q1
               /\ evt' = e1
               /\ UNCHANGED <<current_key_index, key_usage_counts, rotated>>
          ELSE /\ key_usage_counts[current_key_index] <= USAGE_THRESHOLD
               /\ key_usage_counts' =
                      counts_after_increment_usage(current_key_index, key_usage_counts)
               /\ IF usage_rotates(current_key_index, key_usage_counts)
                  THEN /\ current_key_index' = rotate_key(current_key_index)
                       /\ rotated' = Rotate(rotated, current_key_index')
                  ELSE UNCHANGED <<current_key_index, rotated>>
               /\ IF o \in OkOutcomes
                  THEN /\ ttl_cache' = ttl_set(c1, key, b, now)
                       /\ used' = used_after_store(q1, ttl_cache', key)
                       /\ evt' = eviction_of_store(e1, q1, c1, ttl_cache', key)
                       /\ ret' = Returns(b, 0, key, FALSE, FALSE)
                  ELSE /\ ttl_cache' = c1
                       /\ used' = q1
                       /\ evt' = e1
                       /\ ret' = Returns(Fallback("mood_bio"), 0, key, FALSE, TRUE)
    /\ UNCHANGED <<botVars, impl, clockVars, handlerVars, serviceVars, gen>>

\* cache_manager.clean_cache_periodically: the hourly cleanup thread, which
\* runs beside the event loop
T_RemoveExpired ==
    /\ impl = "textgen"
    /\ ttl_cache' = ttl_remove_expired(ttl_cache, now)
    /\ ttl_cache' # ttl_cache
    /\ used' = SelectSeq(used, LAMBDA k : k \in KeysOf(ttl_cache'))
    /\ evt' = [NoEvt EXCEPT !.result = "removed"]
    /\ ret' = NoRet
    /\ UNCHANGED <<botVars, impl, clockVars, handlerVars, serviceVars, current_key_index,
                   key_usage_counts, gen, rotated>>

\* ----------------------------------- the cache modules, called directly
DirectValue(key) == ProviderResponse(0, key)

C_Get(key) ==
    /\ impl = "caching"
    /\ LET v == get_cached_response(response_cache, key, now)
       IN ret' = IF v = None THEN NoRet ELSE Returns(v, 0, key, TRUE, FALSE)
    /\ evt' = caching_looked(response_cache, key, now)
    /\ response_cache' = after_get_cached_response(response_cache, key, now)
    /\ UNCHANGED <<botVars, impl, clockVars, CURRENT_KEY_INDEX, CONSECUTIVE_ERRORS, errKeys,
                   htask, serviceVars, textgenVars, rotated, used>>

C_Set(key) ==
    /\ impl = "caching"
    /\ response_cache' = set_cached_response(response_cache, key, DirectValue(key), now)
    /\ ret' = NoRet
    /\ evt' = NoEvt
    /\ UNCHANGED <<botVars, impl, clockVars, CURRENT_KEY_INDEX, CONSECUTIVE_ERRORS, errKeys,
                   htask, serviceVars, textgenVars, rotated, used>>

C_Clear ==
    /\ impl = "caching"
    /\ response_cache # << >>
    /\ response_cache' = caching_clear_cache(response_cache)
    /\ ret' = NoRet
    /\ evt' = [NoEvt EXCEPT !.result = "cleared"]
    /\ UNCHANGED <<botVars, impl, clockVars, CURRENT_KEY_INDEX, CONSECUTIVE_ERRORS, errKeys,
                   htask, serviceVars, textgenVars, rotated, used>>

M_Get(key) ==
    /\ impl = "modcache"
    /\ LET v == mod_get_cached_response(cache, key, now)
       IN /\ ret' = IF v = None THEN NoRet ELSE Returns(v, 0, key, TRUE, FALSE)
          /\ cache' = mod_after_get(cache, key, now)
          /\ used' = used_after_get(used, cache', key, v)
          /\ evt' = lru_looked(cache, key, v, now)
    /\ UNCHANGED <<botVars, impl, clockVars, handlerVars, api_key_usage, key_locks, stask,
                   textgenVars, rotated>>

M_Store(key) ==
    /\ impl = "modcache"
    /\ cache' = cache_response(cache, key, DirectValue(key), now)
    /\ used' = used_after_store(used, cache', key)
    /\ evt' = eviction_of_store(NoEvt, used, cache, cache', key)
    /\ ret' = NoRet
    /\ UNCHANGED <<botVars, impl, clockVars, handlerVars, api_key_usage, key_locks, stask,
                   textgenVars, rotated>>

M_Clear ==
    /\ impl = "modcache"
    /\ cache # << >>
    /\ cache' = mod_clear_cache(cache)
    /\ used' = << >>
    /\ evt' = [NoEvt EXCEPT !.result = "cleared"]
    /\ ret' = NoRet
    /\ UNCHANGED <<botVars, impl, clockVars, handlerVars, api_key_usage, key_locks, stask,
                   textgenVars, rotated>>

L_Get(key) ==
    /\ impl = "ttlcache"
    /\ LET v == ttl_get(ttl_cache, key, now)
       IN /\ ret' = IF v = None THEN NoRet ELSE Returns(v, 0, key, TRUE, FALSE)
          /\ ttl_cache' = ttl_after_get(ttl_cache, key, now)
          /\ used' = used_after_get(used, ttl_cache', key, v)
          /\ evt' = lru_looked(ttl_cache, key, v, now)
    /\ UNCHANGED <<botVars, impl, clockVars, handlerVars, serviceVars, current_key_index,
                   key_usage_counts, gen, rotated>>

L_Set(key) ==
    /\ impl = "ttlcache"
    /\ ttl_cache' = ttl_set(ttl_cache, key, DirectValue(key), now)
    /\ used' = used_after_store(used, ttl_cache', key)
    /\ evt' = eviction_of_store(NoEvt, used, ttl_cache, ttl_cache', key)
    /\ ret' = NoRet
    /\ UNCHANGED <<botVars, impl, clockVars, handlerVars, serviceVars, current_key_index,
                   key_usage_counts, gen, rotated>>

L_Clear ==
    /\ impl = "ttlcache"
    /\ ttl_cache # << >>
    /\ ttl_cache' = ttl_clear(ttl_cache)
    /\ used' = << >>
    /\ evt' = [NoEvt EXCEPT !.result = "cleared"]
    /\ ret' = NoRet
    /\ UNCHANGED <<botVars, impl, clockVars, handlerVars, serviceVars, current_key_index,
                   key_usage_counts, gen, rotated>>

L_RemoveExpired ==
    /\ impl = "ttlcache"
    /\ ttl_cache' = ttl_remove_expired(ttl_cache, now)
    /\ ttl_cache' # ttl_cache
    /\ used' = SelectSeq(used, LAMBDA k : k \in KeysOf(ttl_cache'))
    /\ evt' = [NoEvt EXCEPT !.result = "removed"]
    /\ ret' = NoRet
    /\ UNCHANGED <<botVars, impl, clockVars, handlerVars, serviceVars, current_key_index,
                   key_usage_counts, gen, rotated>>

\* the wall clock advances
Tick(d) ==
    /\ ticks < MaxTicks
    /\ now' = now + d
    /\ ticks' = ticks + 1
    /\ ret' = NoRet
    /\ evt' = NoEvt
    /\ UNCHANGED <<botVars, impl, handlerVars, serviceVars, textgenVars, rotated, used>>

\* ------------------------------------------------------------ bot front end
\* the handlers bot/__init__.py create_bot registers, run one update at a time
OWNER_ID == "owner"
Users == {"u1"}
Senders == Users \cup {OWNER_ID}
GROUP_ID == "g1"
Texts == {"hi", "/cancel"}
HistoryKeys == Senders \cup {GROUP_ID}

\* the update a step handles, and a message the bot sends while handling it
NoUpdate == [kind |-> "", from |-> "", chat |-> "", text |-> ""]
Update(kind, from, chat, text) == [kind |-> kind, from |-> from, chat |-> chat, text |-> text]
Msg(kind, to, about, text) == [kind |-> kind, to |-> to, about |-> about, text |-> text]

\* the completion generate_ai_response returns for a text
AIReply(text) == IF text = "hi" THEN "re: hi" ELSE "re: other"

\* context.user_data of the owner without a pending composition
NoUserData == [awaiting_admin_message |-> FALSE, admin_message_target |-> ""]

\* context.chat_data without a stored broadcast
NoChatData == [broadcast_message |-> "", broadcast_targets |-> {}]

\* ---------------------------------------------------------- bot/database.py
\* add_or_update_user: the users table afterwards, and the value returned
users_after_add_or_update_user(tbl, u) ==
    IF tbl[u] = "absent" THEN [tbl EXCEPT ![u] = "member"] ELSE tbl
add_or_update_user(tbl, u) == TRUE

\* ban_user: UPDATE ... SET is_banned = 1; returns rowcount > 0
users_after_ban_user(tbl, u) ==
    IF tbl[u] = "absent" THEN tbl ELSE [tbl EXCEPT ![u] = "banned"]
ban_user(tbl, u) == tbl[u] # "absent"

\* Python values of a setting: a bool or a str
PyBool(b) == [type |-> "bool", val |-> IF b THEN "True" ELSE "False"]
PyStr(s) == [type |-> "str", val |-> s]
PyTruthy(v) == IF v.type = "bool" THEN v.val = "True" ELSE v.val # ""
\* str(v)
PyStrOf(v) == v.val
\* json.dumps of a bool
json_dumps_bool(v) == IF v.val = "True" THEN "true" ELSE "false"
\* the texts json.loads accepts, among the ones a row can hold
JsonTexts == {"true", "false"}
json_loads(s) == PyBool(s = "true")

\* the value column of the settings row of message_logging; NoRow: no row
NoRow == "<no row>"

get_setting(row, default) ==
    IF row = NoRow THEN default
    ELSE IF row \in JsonTexts THEN json_loads(row) ELSE PyStr(row)

\* the value column set_setting writes
set_setting(value) ==
    IF value.type # "str" THEN json_dumps_bool(value) ELSE value.val

\* ------------------------------------------------------------ bot/caching.py
\* add_to_conversation_history dropping the oldest message one message late
add_to_conversation_history_late(h, msg) ==
    Append(IF Len(h) > HistoryLimit THEN Tail(h) ELSE h, msg)

\* add_to_conversation_history: the list of one key after adding a message
add_to_conversation_history(h, msg) ==
    Append(IF Len(h) >= HistoryLimit THEN Tail(h) ELSE h, msg)

\* the last messages added for one key, one more than the list may hold
Remember(w, msg) ==
    LET a == Append(w, msg) IN
    IF Len(a) > HistoryLimit + 1 THEN Tail(a) ELSE a

UserMsg(text) == [role |-> "user", content |-> text]
AssistantMsg(text) == [role |-> "assistant", content |-> text]

\* lines 291-292 and 511-512: the message and the response are added
history_after_exchange(hist, key, text) ==
    [hist EXCEPT ![key] = add_to_conversation_history(
                              add_to_conversation_history(@, UserMsg(text)),
                              AssistantMsg(AIReply(text)))]
added_after_exchange(w, key, text) ==
    [w EXCEPT ![key] = Remember(Remember(@, UserMsg(text)), AssistantMsg(AIReply(text)))]

\* the keys and the messages of the direct calls
DirectKeys == {"u1", GROUP_ID}
HistoryMessages == {UserMsg("hi"), UserMsg("yo"), AssistantMsg("re: hi")}

\* a call of add_to_conversation_history on its own
Hist_Add(key, msg) ==
    /\ impl = "history"
    /\ conversation_history' =
           [conversation_history EXCEPT ![key] = add_to_conversation_history(@, msg)]
    /\ added' = [added EXCEPT ![key] = Remember(@, msg)]
    /\ update' = NoUpdate
    /\ out' = {}
    /\ UNCHANGED <<aiVars, users, user_data, buttons, settings, broadcastVars>>

\* ------------------------------------------------------ bot/admin_handler.py
\* log_message_to_owner: the messages it sends
log_message_to_owner(row, u, text) ==
    IF ~PyTruthy(get_setting(row, PyBool(TRUE))) THEN {}
    ELSE IF u = OWNER_ID THEN {}
    ELSE {Msg("log", OWNER_ID, u, text)}

\* get_all_users: the rows with is_banned = 0; get_all_groups: the bot is in
\* one group, which is not banned
get_all_users(tbl) == {u \in Senders : tbl[u] = "member"}
get_all_groups == {GROUP_ID}

BroadcastTargets == {"all", "users", "groups"}
BroadcastMessages == {"A", "B"}

\* lines 70-79: the recipients of a target
targets_of(tbl, target) ==
    (IF target \in {"all", "users"} THEN get_all_users(tbl) ELSE {}) \cup
    (IF target \in {"all", "groups"} THEN get_all_groups ELSE {})

\* the previews whose Confirm and Cancel buttons are still shown
OpenPreviews == {i \in 1 .. Len(previews) : previews[i].open}

\* bot/admin_handler.py broadcast_command
B_Broadcast(u, target, message) ==
    /\ impl = "broadcast"
    /\ Len(previews) < MaxPreviews
    /\ update' = Update("command", u, "private", "/broadcast")
    /\ IF u # OWNER_ID
       THEN /\ out' = {Msg("owner_only", u, u, "")}
            /\ UNCHANGED <<chat_data, previews>>
       ELSE LET targets == targets_of(users, target) IN
            IF targets = {}
            THEN /\ out' = {Msg("no_targets", u, u, "")}
                 /\ UNCHANGED <<chat_data, previews>>
            ELSE /\ out' = {Msg("preview", u, target, message)}
                 /\ previews' = Append(previews, [message |-> message, targets |-> targets,
                                                  open |-> TRUE])
                 /\ chat_data' = [broadcast_message |-> message,
                                  broadcast_targets |-> targets]
    /\ UNCHANGED <<aiVars, users, user_data, buttons, settings, conversation_history,
                   added>>

\* bot/admin_handler.py broadcast_callback, the Confirm button of preview i
B_Confirm(i) ==
    /\ impl = "broadcast"
    /\ i \in OpenPreviews
    /\ update' = Update("button", OWNER_ID, "private", "broadcast_confirm")
    /\ previews' = [previews EXCEPT ![i].open = FALSE]
    /\ LET message == chat_data.broadcast_message
           targets == chat_data.broadcast_targets
       IN IF message = "" \/ targets = {}
          THEN /\ out' = {Msg("not_found", OWNER_ID, OWNER_ID, "")}
               /\ UNCHANGED chat_data
          ELSE /\ out' = {Msg("broadcast", t, OWNER_ID, message) : t \in targets}
                            \cup {Msg("report", OWNER_ID, OWNER_ID, "")}
               /\ chat_data' = NoChatData
    /\ UNCHANGED <<aiVars, users, user_data, buttons, settings, conversation_history,
                   added>>

\* bot/admin_handler.py broadcast_callback, the Cancel button of preview i
B_Cancel(i) ==
    /\ impl = "broadcast"
    /\ i \in OpenPreviews
    /\ update' = Update("button", OWNER_ID, "private", "broadcast_cancel")
    /\ previews' = [previews EXCEPT ![i].open = FALSE]
    /\ out' = {}
    /\ UNCHANGED <<aiVars, users, user_data, buttons, settings, conversation_history,
                   added, chat_data>>

\* ----------------------------------------------------------- bot/__init__.py
\* the handler a text update goes to: the first one registered whose filter
\* matches, the CommandHandlers (lines 43-78) before the MessageHandlers
\* (lines 83-84)
dispatch(chat, text) ==
    IF text = "/start" THEN "start_command"
    ELSE IF text = "/cancel" THEN "cancel_command"
    ELSE IF text = "/gban" THEN "gban_command"
    ELSE IF text = "/logging" THEN "toggle_logging_command"
    ELSE IF chat = "private" THEN "handle_private_message"
    ELSE "handle_group_message"

\* bot/ai_handler.py start_command
D_Start(u) ==
    /\ impl = "bot"
    /\ dispatch("private", "/start") = "start_command"
    /\ LET is_new_user == add_or_update_user(users, u)
           notice == IF is_new_user /\ u # OWNER_ID
                     THEN {Msg("new_user", OWNER_ID, u, "")} ELSE {}
       IN /\ users' = users_after_add_or_update_user(users, u)
          /\ out' = {Msg("greeting", u, u, "")} \cup notice
          /\ buttons' = buttons \cup {m.about : m \in notice}
    /\ update' = Update("command", u, "private", "/start")
    /\ UNCHANGED <<aiVars, user_data, settings, conversation_history, added,
                   broadcastVars>>

\* bot/admin_handler.py gban_command
D_Gban(u, target) ==
    /\ impl = "bot"
    /\ dispatch("private", "/gban") = "gban_command"
    /\ IF u # OWNER_ID
       THEN /\ out' = {Msg("owner_only", u, u, "")}
            /\ UNCHANGED users
       ELSE IF target = OWNER_ID
       THEN /\ out' = {Msg("cannot_ban_yourself", u, u, "")}
            /\ UNCHANGED users
       ELSE /\ users' = users_after_ban_user(users, target)
            /\ out' = IF ban_user(users, target)
                      THEN {Msg("banned", u, target, ""), Msg("you_are_banned", target, target, "")}
                      ELSE {Msg("ban_failed", u, target, "")}
    /\ update' = Update("command", u, "private", "/gban")
    /\ UNCHANGED <<aiVars, user_data, buttons, settings, conversation_history, added,
                   broadcastVars>>

\* bot/admin_handler.py admin_action_callback, the Message button of a new-user
\* notification or the Reply button of a message log
D_AdminMessageButton(target) ==
    /\ impl = "bot"
    /\ target \in buttons
    /\ user_data' = [awaiting_admin_message |-> TRUE, admin_message_target |-> target]
    /\ out' = {Msg("compose", OWNER_ID, target, "")}
    /\ update' = Update("button", OWNER_ID, "private", "admin_msg")
    /\ UNCHANGED <<aiVars, users, buttons, settings, conversation_history, added,
                   broadcastVars>>

\* bot/group_handler.py cancel_command; no tagging session is active
D_Cancel(u, chat) ==
    /\ impl = "bot"
    /\ dispatch(chat, "/cancel") = "cancel_command"
    /\ out' = {Msg("no_active_tagging", IF chat = "private" THEN u ELSE GROUP_ID, u, "")}
    /\ update' = Update("command", u, chat, "/cancel")
    /\ UNCHANGED <<aiVars, users, user_data, buttons, settings, conversation_history,
                   added, broadcastVars>>

\* bot/ai_handler.py handle_private_message
D_PrivateText(u, text, appropriate) ==
    /\ impl = "bot"
    /\ dispatch("private", text) = "handle_private_message"
    /\ update' = Update("text", u, "private", text)
    /\ IF u = OWNER_ID /\ user_data.awaiting_admin_message
          /\ (text = "/cancel" \/ user_data.admin_message_target # "")
       THEN \* lines 211-251
            /\ out' = IF text # "/cancel"
                      THEN {Msg("admin_message", user_data.admin_message_target, u, text),
                            Msg("message_sent", u, user_data.admin_message_target, "")}
                      ELSE {Msg("cancelled", u, u, "")}
            /\ user_data' = NoUserData
            /\ UNCHANGED <<buttons, conversation_history, added>>
       ELSE IF ~appropriate
       THEN \* lines 253-260
            /\ out' = {Msg("refused", u, u, "")}
            /\ UNCHANGED <<user_data, buttons, conversation_history, added>>
       ELSE \* lines 262-364
            LET log == IF u # OWNER_ID
                       THEN log_message_to_owner(settings, u, text) ELSE {}
            IN /\ conversation_history' = history_after_exchange(conversation_history, u, text)
               /\ added' = added_after_exchange(added, u, text)
               /\ out' = {Msg("ai_response", u, u, AIReply(text))} \cup log
               /\ buttons' = buttons \cup {m.about : m \in log}
               /\ UNCHANGED user_data
    /\ UNCHANGED <<aiVars, users, settings, broadcastVars>>

\* bot/ai_handler.py handle_group_message; mentioned: the text mentions the
\* bot or replies to it
D_GroupText(u, text, mentioned, appropriate) ==
    /\ impl = "bot"
    /\ dispatch("group", text) = "handle_group_message"
    /\ update' = Update("text", u, "group", text)
    /\ IF ~mentioned
       THEN /\ out' = {}
            /\ UNCHANGED <<buttons, conversation_history, added>>
       ELSE IF ~appropriate
       THEN /\ out' = {Msg("refused", GROUP_ID, u, "")}
            /\ UNCHANGED <<buttons, conversation_history, added>>
       ELSE LET log == IF u # OWNER_ID
                       THEN log_message_to_owner(settings, u, text) ELSE {}
            IN /\ conversation_history' =
                      history_after_exchange(conversation_history, GROUP_ID, text)
               /\ added' = added_after_exchange(added, GROUP_ID, text)
               /\ out' = {Msg("ai_response", GROUP_ID, u, AIReply(text))} \cup log
               /\ buttons' = buttons \cup {m.about : m \in log}
    /\ UNCHANGED <<aiVars, users, user_data, settings, broadcastVars>>

\* bot/admin_handler.py toggle_logging_command
D_Logging(u) ==
    /\ impl = "bot"
    /\ dispatch("private", "/logging") = "toggle_logging_command"
    /\ update' = Update("command", u, "private", "/logging")
    /\ IF u # OWNER_ID
       THEN /\ out' = {Msg("owner_only", u, u, "")}
            /\ UNCHANGED settings
       ELSE LET current_status == get_setting(settings, PyBool(TRUE))
                new_status == PyBool(~PyTruthy(current_status))
            IN /\ settings' = set_setting(new_status)
               /\ out' = {Msg(IF PyTruthy(new_status) THEN "logging_enabled"
                              ELSE "logging_disabled", u, u, "")}
    /\ UNCHANGED <<aiVars, users, user_data, buttons, conversation_history, added,
                   broadcastVars>>

\* bot/ai_handler.py button_callback, the toggle_logging button of the owner's
\* Logs menu (the owner's /start keyboard leads to it)
D_ToggleLoggingButton ==
    /\ impl = "bot"
    /\ users[OWNER_ID] # "absent"
    /\ update' = Update("button", OWNER_ID, "private", "toggle_logging")
    /\ LET message_logging == get_setting(settings, PyStr("False")) = PyStr("True")
           new_status == PyBool(~message_logging)
       IN /\ settings' = set_setting(PyStr(PyStrOf(new_status)))
          /\ out' = {Msg(IF PyTruthy(new_status) THEN "logging_enabled"
                         ELSE "logging_disabled", OWNER_ID, OWNER_ID, "")}
    /\ UNCHANGED <<aiVars, users, user_data, buttons, conversation_history, added,
                   broadcastVars>>

\* ------------------------------------------------------------ specification
Init ==
    /\ impl \in Impls
    /\ now = 0
    /\ ticks = 0
    /\ CURRENT_KEY_INDEX = 0
    /\ CONSECUTIVE_ERRORS = 0
    /\ errKeys = {}
    /\ response_cache = << >>
    /\ htask = [t \in Tasks |-> Idle]
    /\ api_key_usage = [k \in GROQ_API_KEYS |-> 0]
    /\ key_locks = [k \in GROQ_API_KEYS |-> Free]
    /\ stask = [t \in Tasks |-> SIdle]
    /\ cache = << >>
    /\ current_key_index \in (IF impl = "textgen" THEN GROQ_API_KEYS ELSE {0})
    /\ key_usage_counts = [k \in GROQ_API_KEYS |-> 0]
    /\ gen = Idle
    /\ ttl_cache = << >>
    /\ rotated = <<current_key_index>>
    /\ used = << >>
    /\ evt = NoEvt
    /\ ret = NoRet
    /\ users = [u \in Senders |-> IF impl = "broadcast" THEN "member" ELSE "absent"]
    /\ user_data = NoUserData
    /\ buttons = {}
    /\ settings = NoRow
    /\ conversation_history = [k \in HistoryKeys |-> << >>]
    /\ added = [k \in HistoryKeys |-> << >>]
    /\ chat_data = NoChatData
    /\ previews = << >>
    /\ update = NoUpdate
    /\ out = {}

HandlerNext ==
    \/ \E t \in Tasks, r \in HandlerRequests : H_Begin(t, r)
    \/ \E t \in Tasks, o \in Outcomes : H_Primary(t, o)
    \/ \E t \in Tasks, o \in Outcomes : H_Backup(t, o)
    \/ H_ClearExpiredCache

ServiceNext ==
    \/ \E t \in Tasks, r \in Requests : S_Begin(t, r)
    \/ \E t \in Tasks : S_Acquire(t)
    \/ \E t \in Tasks, o \in Outcomes : S_Req1(t, o)
    \/ \E t \in Tasks : S_Wake(t)
    \/ \E t \in Tasks, o \in Outcomes : S_Req2(t, o)

TextgenNext ==
    \/ \E r \in HandlerRequests : T_Start(r)
    \/ \E o \in Outcomes : T_First(o)
    \/ \E o \in Outcomes : T_Retry(o)
    \/ T_AdminRotate
    \/ \E k \in BioKeys, o \in Outcomes : T_Bio(k, o)
    \/ T_RemoveExpired

CacheNext ==
    \/ \E k \in CacheKeys : C_Get(k)
    \/ \E k \in CacheKeys : C_Set(k)
    \/ C_Clear
    \/ \E k \in CacheKeys : M_Get(k)
    \/ \E k \in CacheKeys : M_Store(k)
    \/ M_Clear
    \/ \E k \in CacheKeys : L_Get(k)
    \/ \E k \in CacheKeys : L_Set(k)
    \/ L_Clear
    \/ L_RemoveExpired

BotNext ==
    \/ \E u \in Senders : D_Start(u)
    \/ \E u \in Senders, target \in Senders : D_Gban(u, target)
    \/ \E target \in Users : D_AdminMessageButton(target)
    \/ \E u \in Senders, chat \in {"private", "group"} : D_Cancel(u, chat)
    \/ \E u \in Senders, x \in Texts, a \in BOOLEAN : D_PrivateText(u, x, a)
    \/ \E u \in Senders, x \in Texts, m \in BOOLEAN, a \in BOOLEAN : D_GroupText(u, x, m, a)
    \/ \E u \in Senders : D_Logging(u)
    \/ D_ToggleLoggingButton

BroadcastNext ==
    \/ \E u \in Senders, g \in BroadcastTargets, x \in BroadcastMessages : B_Broadcast(u, g, x)
    \/ \E i \in 1 .. MaxPreviews : B_Confirm(i)
    \/ \E i \in 1 .. MaxPreviews : B_Cancel(i)

HistoryNext == \E k \in DirectKeys, m \in HistoryMessages : Hist_Add(k, m)

ClockNext == \E d \in TimeSteps : Tick(d)

Next ==
    \/ HandlerNext
    \/ ServiceNext
    \/ TextgenNext
    \/ CacheNext
    \/ BotNext
    \/ HistoryNext
    \/ BroadcastNext
    \/ ClockNext

Spec == Init /\ [][Next]_vars

\* the stacks on their own
HandlerInit == Init /\ impl = "handler"
HandlerStep == HandlerNext \/ ClockNext
HandlerSpec == HandlerInit /\ [][HandlerStep]_vars

ServiceInit == Init /\ impl = "service"
ServiceStep == ServiceNext \/ ClockNext
ServiceSpec == ServiceInit /\ [][ServiceStep]_vars

CacheInit == Init /\ impl \in {"caching", "modcache", "ttlcache"}
CacheStep == CacheNext \/ ClockNext
CacheSpec == CacheInit /\ [][CacheStep]_vars

BotInit == Init /\ impl = "bot"
BotSpec == BotInit /\ [][BotNext]_vars

\* the broadcasts of the owner, every sender registered
BroadcastInit == Init /\ impl = "broadcast"
BroadcastSpec == BroadcastInit /\ [][BroadcastNext]_vars

\* the conversation histories under the handlers and under direct calls
HistoryInit == Init /\ impl \in {"bot", "history"}
HistoryStep == BotNext \/ HistoryNext
HistorySpec == HistoryInit /\ [][HistoryStep]_vars

\* get_ai_response under the scheduling of the event loop: every HTTP request
\* and every sleep completes, and a lock that becomes free is handed to a
\* coroutine waiting for it (asyncio.Lock wakes its waiters in FIFO order)
ServiceFairness ==
    \A t \in Tasks :
        /\ WF_vars(\E o \in Outcomes : S_Req1(t, o))
        /\ WF_vars(\E o \in Outcomes : S_Req2(t, o))
        /\ WF_vars(S_Wake(t))
        /\ SF_vars(S_Acquire(t))
LiveSpec == ServiceInit /\ [][ServiceStep]_vars /\ ServiceFairness

\* ------------------------------------------------------------------ claims
\* the step in which the request a coroutine made with its key fails
HandlerFails(t) == htask[t].pc = "primary" /\ htask'[t].pc = "backup"
TextgenFirstFails == gen.pc = "first" /\ gen'.pc = "retry"
TextgenRetryFails == gen.pc = "retry" /\ gen'.pc = "idle" /\ ret'.failed

StaticFallbacks ==
    {DEFAULT_ERROR_MESSAGE, SORRY_MESSAGE, Fallback("error_template"), Fallback("mood_bio")}
        \cup {Fallback(f) : f \in FallbackResponses}

\* C2, as stated: a call whose provider requests all failed returns one of
\* the static fallback strings, and no call ends with an exception leaving
\* the request function.
C2_FallbackOnFailure ==
    /\ ret.val.kind # "exception"
    /\ ret.failed => ret.val \in StaticFallbacks

\* C3, as stated: the failures counted in CONSECUTIVE_ERRORS are all failures
\* of requests made with the current credential.
C3_CountedPerCredential ==
    errKeys \subseteq {get_current_api_key(CURRENT_KEY_INDEX)}

\* the window of rotations: each index follows its predecessor by one, and
\* NumKeys rotations in a row visit every credential once and come back
WindowRoundRobin ==
    /\ \A i \in 1 .. (Len(rotated) - 1) : rotated[i + 1] = (rotated[i] + 1) % NumKeys
    /\ Len(rotated) = NumKeys + 1 =>
          /\ rotated[NumKeys + 1] = rotated[1]
          /\ {rotated[i] : i \in 1 .. NumKeys} = GROQ_API_KEYS

\* C4: the current key index stays within 0..N-1, every change of it goes
\* from i to (i + 1) mod N, and N rotations in a row visit every credential
\* exactly once and end at the credential they started from.
C4_RoundRobin ==
    /\ [](/\ CURRENT_KEY_INDEX \in GROQ_API_KEYS
          /\ current_key_index \in GROQ_API_KEYS
          /\ WindowRoundRobin)
    /\ [][ /\ CURRENT_KEY_INDEX' # CURRENT_KEY_INDEX =>
                 CURRENT_KEY_INDEX' = (CURRENT_KEY_INDEX + 1) % NumKeys
           /\ current_key_index' # current_key_index =>
                 current_key_index' = (current_key_index + 1) % NumKeys ]_vars

\* the handler has rotated N times and is back at its first credential
C4_Witness == impl = "handler" /\ Len(rotated) = NumKeys + 1

C6_CacheBounded ==
    /\ Len(response_cache) <= MAX_CACHE_ITEMS
    /\ Len(cache) <= MAX_CACHE_ITEMS
    /\ Len(ttl_cache) <= MAX_CACHE_SIZE

\* a store into the full cache of bot/modules/cache.py has evicted an entry
C6_Witness == impl = "modcache" /\ evt.evicted # "" /\ Len(cache) = MAX_CACHE_ITEMS

\* C7, as stated: the entry evicted by the store of a new key into a full LRU
\* cache is the least recently used one, lookups that hit and stores both
\* counting as uses.
C7_EvictsLeastRecentlyUsed ==
    (evt.evicted # "" /\ evt.fresh) => evt.evicted = evt.lru

\* C8, as stated: a response served from the cache was stored by a request
\* of the same user with the same text.
C8_SameUserSameText ==
    ret.hit => (ret.val.user = ret.user /\ ret.val.text = ret.text)

\* the keys whose entry is older than the expiry period
StaleKeys ==
    {response_cache[i].key : i \in {j \in 1 .. Len(response_cache) :
                                       response_cache[j].expiry < now}}
        \cup {cache[i].key : i \in {j \in 1 .. Len(cache) :
                                       now - cache[j].time > CACHE_EXPIRY}}
        \cup {ttl_cache[i].key : i \in {j \in 1 .. Len(ttl_cache) :
                                       now - ttl_cache[j].time > CACHE_EXPIRATION}}

\* C9: a lookup never returns an entry stored more than 3600 s earlier; the
\* lookup of such an entry is a miss and leaves no such entry for its key.
C9_NoStaleHit ==
    /\ evt.result = "hit" => evt.age <= 3600
    /\ evt.age > 3600 => (evt.result = "expired" /\ evt.key \notin StaleKeys)

\* a lookup has found an entry older than the expiry period
C9_Witness == evt.result = "expired" /\ evt.age > 3600

\* C10, as stated: every get_ai_response call that has started returns.
C10_EveryCallReturns ==
    \A t \in Tasks : (stask[t].pc # "idle") ~> (stask[t].pc = "idle")

\* the elements of a sequence are pairwise different
NoRepeat(q) == \A i, j \in 1 .. Len(q) : q[i] = q[j] => i = j

\* C11, as stated: within one get_ai_response call no key is used for two
\* requests, and the fallback is returned only after a request was made
\* with each of the N configured keys.
C11_AllKeysOnce ==
    /\ NoRepeat(ret.keys)
    /\ \A t \in Tasks :
          /\ NoRepeat(stask[t].tried)
          /\ stask[t].pc \in {"req1", "req2"} =>
                \A i \in 1 .. Len(stask[t].tried) : stask[t].tried[i] # stask[t].key
    /\ (impl = "service" /\ ret.failed) => {ret.keys[i] : i \in 1 .. Len(ret.keys)} = GROQ_API_KEYS

\* the step in which the primary request of a generate_ai_response call
\* fails, in whichever way
HandlerCallFails(t) ==
    /\ htask[t].pc = "primary"
    /\ htask'[t].pc = "backup" \/ (htask'[t].pc = "idle" /\ ret'.failed)

\* C12, as stated: a failed call that is the third consecutive one advances
\* CURRENT_KEY_INDEX by one and resets CONSECUTIVE_ERRORS to 0, and the
\* index changes in no other step.
C12_ChangesExactlyAtThird ==
    [][ /\ \A t \in Tasks :
              (HandlerCallFails(t) /\ CONSECUTIVE_ERRORS + 1 = MAX_CONSECUTIVE_ERRORS) =>
                  /\ CURRENT_KEY_INDEX' = (CURRENT_KEY_INDEX + 1) % NumKeys
                  /\ CONSECUTIVE_ERRORS' = 0
        /\ CURRENT_KEY_INDEX' # CURRENT_KEY_INDEX =>
              \E t \in Tasks :
                  HandlerCallFails(t) /\ CONSECUTIVE_ERRORS + 1 = MAX_CONSECUTIVE_ERRORS ]_vars

\* the AI responses the step just taken generated and sent
AIResponses == {m \in out : m.kind = "ai_response"}

\* C13, as stated: while user U is globally banned, a text message U sends to
\* the bot, in the private chat or in a group, is ignored: the bot generates
\* and sends no AI response for it.
C13_BannedIgnored ==
    (update.kind = "text" /\ users[update.from] = "banned") => AIResponses = {}

\* the step just taken is a run of the clear_expired_cache job
ClearExpiredCacheRuns == impl = "handler" /\ evt'.result = "cleared"

\* C14, as stated: the periodic clear_expired_cache job removes only entries
\* whose expiry time has passed: every entry that was unexpired when the job
\* ran is still returned by get_cached_response afterwards.
C14_OnlyExpiredRemoved ==
    [][ ClearExpiredCacheRuns =>
            \A i \in 1 .. Len(response_cache) :
                response_cache[i].expiry >= now =>
                    get_cached_response(response_cache', response_cache[i].key, now')
                        = response_cache[i].data ]_vars

\* the last n elements of a sequence
MostRecent(w, n) == IF Len(w) <= n THEN w ELSE SubSeq(w, Len(w) - n + 1, Len(w))

\* C15: for every user (every history key), the stored conversation history
\* never holds more than the limit of messages (20 in the code), and it
\* equals the most recent messages added for that key, up to the limit, in
\* the order they were added.
C15_HistoryIsRecent ==
    \A k \in HistoryKeys :
        /\ Len(conversation_history[k]) <= HistoryLimit
        /\ conversation_history[k] = MostRecent(added[k], HistoryLimit)

\* C15 witness: a full history whose oldest message has been dropped, the
\* dropped message differing from the one that is now the oldest.
C15_Witness ==
    \E k \in HistoryKeys :
        /\ Len(added[k]) = HistoryLimit + 1
        /\ Len(conversation_history[k]) = HistoryLimit
        /\ added[k][1] # conversation_history[k][1]

\* the broadcast messages the step just taken delivered
Deliveries == {m \in out : m.kind = "broadcast"}

\* C16, as stated: pressing Confirm on a broadcast preview delivers exactly
\* the message and the recipient list of the /broadcast command that produced
\* that preview, whatever /broadcast commands, Confirm presses and Cancel
\* presses came before.
C16_ConfirmDeliversPreview ==
    [][ \A i \in 1 .. Len(previews) :
            (update'.text = "broadcast_confirm" /\ previews[i].open /\ ~previews'[i].open) =>
                Deliveries' = {Msg("broadcast", t, OWNER_ID, previews[i].message) :
                                  t \in previews[i].targets} ]_vars

\* the step just taken handles a /cancel the owner typed in the private chat
OwnerCancels ==
    update' = Update("command", OWNER_ID, "private", "/cancel")

\* C17, as stated: when the owner has pressed Message or Reply on a
\* notification and then types /cancel in the private chat, the pending
\* composition is cancelled: awaiting_admin_message is cleared (so that the
\* owner's next text is not delivered to the target user).
C17_CancelClearsComposition ==
    [][ (user_data.awaiting_admin_message /\ OwnerCancels) =>
            ~user_data'.awaiting_admin_message ]_vars

\* the rows the two toggles write when they report logging as disabled:
\* json.dumps(False) by /logging, str(False) by the button
DisabledRows == {"false", "False"}

\* the message logs the step just taken forwarded to the owner
Forwarded == {m \in out : m.kind = "log"}

\* C18, as stated: after the owner has disabled message logging, with the
\* /logging command or with the toggle_logging button, no user message is
\* forwarded to the owner until logging is enabled again.
C18_NoForwardWhileDisabled ==
    settings \in DisabledRows => Forwarded = {}

\* C19, as stated: a /start from a user who is already in the database is
\* not treated as a new user: it sends no new-user notification to the
\* owner; only the first /start of a user does.
C19_NotifiedOnce ==
    [][ (update'.text = "/start" /\ users[update'.from] # "absent") =>
            {m \in out' : m.kind = "new_user"} = {} ]_vars
====
